---------------------------- MODULE Spec2Model ----------------------------
(***************************************************************************)
(* File-system monitoring pipeline of the endpoint protection agent        *)
(* (src/src/file_monitor.rs, src/src/main.rs):                             *)
(*                                                                         *)
(*   OS notifications -> debouncer window -> debounce callback (classify,  *)
(*   blocking_send) -> bounded mpsc channel -> consumer (recv).            *)
(*                                                                         *)
(* FileMonitor::new builds the channel and the debouncer whose callback    *)
(* owns the sender; FileMonitor::start registers the configured paths;     *)
(* dropping the FileMonitor drops the debouncer.  The debouncer itself     *)
(* (window buffer, coalescing, flush) is not code of src/: it is modelled  *)
(* from section 4.2 of the specification.                                  *)
(***************************************************************************)
EXTENDS Naturals, Sequences, FiniteSets

(***************************************************************************)
(* Bounds of the model.                                                    *)
(***************************************************************************)
\* Environment operations (file-system changes, backend notices) in a run
\* of Spec.
MaxOps == 2
\* File-system changes in a run of SpecStart.
MaxStartOps == 3
\* Writes performed by the load scenario of SpecLoad: enough to fill the
\* channel and keep the producer suspended.
MaxLoadOps == 102

\* mpsc::channel(100)
ChannelCapacity == 100

\* config.check_interval_seconds, in seconds of the agent's loop (SpecMain).
check_interval_seconds == 2

(***************************************************************************)
(* Paths.  D is a directory, D/a and D/b are files that may exist under    *)
(* it, N is a path that does not exist, S a path that exists and is neither  *)
(* a file nor a directory (a socket, a device).                            *)
(***************************************************************************)
D == "D"
Da == "D/a"
Db == "D/b"
N == "N"
S == "S"
NoPath == "-"

Paths == {D, Da, Db, N, S}

\* p lies strictly below directory d
IsUnder(p, d) == d = D /\ p \in {Da, Db}

\* The path lists FileMonitor::new is given in the runs of SpecStart.
PathLists ==
  { <<>>, <<N>>, <<D>>, <<Da>>, <<D, D>>, <<S, D, Da>>, <<D, N>> }

(***************************************************************************)
(* Raw records of the backend (notify::Event): the kind class and the      *)
(* paths.  "Any" stands for every kind the callback's match does not name  *)
(* (EventKind::Any).  late is history: the record was produced after the   *)
(* FileMonitor was dropped.                                                *)
(***************************************************************************)
Kinds == {"Create", "Remove", "Modify", "Access", "Other", "Any"}

Rec(k, ps, l) == [kind |-> k, paths |-> ps, late |-> l]

(***************************************************************************)
(* FileSystemEvent.  One record shape for all variants: path is the        *)
(* payload of Created/Deleted/Modified, (kind, paths) the notify::Event    *)
(* cloned into Other.                                                      *)
(***************************************************************************)
Created(p, l) ==
  [tag |-> "Created", path |-> p, kind |-> "-", paths |-> <<>>, late |-> l]
Deleted(p, l) ==
  [tag |-> "Deleted", path |-> p, kind |-> "-", paths |-> <<>>, late |-> l]
Modified(p, l) ==
  [tag |-> "Modified", path |-> p, kind |-> "-", paths |-> <<>>, late |-> l]
Renamed(p, q, l) ==
  [tag |-> "Renamed", path |-> p, kind |-> "-", paths |-> <<q>>, late |-> l]
Other(r) ==
  [tag |-> "Other", path |-> NoPath, kind |-> r.kind, paths |-> r.paths,
   late |-> r.late]


(***************************************************************************)
(* State.                                                                  *)
(***************************************************************************)
VARIABLES
  fs,             \* file system: path -> "dir" | "file" | "special" | "none"
  nops,           \* environment operations performed so far
  lateOps,        \* history: those performed after the FileMonitor was dropped
  paths_to_watch, \* FileMonitor.paths_to_watch
  mon,            \* "Constructed" | "Starting" | "Watching" | "StartFailed"
                  \* | "Stopped" (the FileMonitor was dropped)
  startIdx,       \* start(): index of the path the loop handles next
  probed,         \* history: what start() found each path to be
  registered,     \* the backend's registrations, in the order they were made
  window,         \* debouncer: settled records of the current window
  rawWindow,      \* history: the raw records received in the current window
  batch,          \* callback: records of the flushed batch not yet handled
  batchRaw,       \* history: the raw records behind the batch in flight
  batchSent,      \* history: events enqueued from the batch in flight
  flushLog,       \* history: all records flushed so far, in flush order
  nWatchErr,      \* history: error batches the callback was given (logged)
  chan,           \* the channel's queue
  txAlive,        \* the sender (tx_internal, owned by the callback) exists
  rxAlive,        \* the receiver (rx_internal) exists
  sentLog,        \* history: events enqueued so far
  nSendErr,       \* history: sends that failed with a closed channel (logged)
  received,       \* history: events the consumer received
  gotNone,        \* the consumer's recv returned None
  elapsed         \* agent's loop: seconds since the select's sleep was made

fsVars == <<fs, nops, lateOps>>
startVars == <<paths_to_watch, mon, startIdx, probed, registered>>
debVars == <<window, rawWindow>>
cbVars == <<batch, batchRaw, batchSent, flushLog, nWatchErr>>
chanVars == <<chan, txAlive, rxAlive, sentLog, nSendErr>>
rxVars == <<received, gotNone, elapsed>>
vars == <<fsVars, startVars, debVars, cbVars, chanVars, rxVars>>

(***************************************************************************)
(* EventClassifier: the match of the debounce callback.  The result is an  *)
(* Option: <<>> is None, <<e>> is Some(e).                                 *)
(***************************************************************************)
\* Mutant: the match has only its catch-all arm.
fs_event_AllOther(r) == <<Other(r)>>

\* Mutant: the single-path variants take the last path of the record.
fs_event_LastPath(r) ==
  CASE r.kind = "Create" ->
         IF r.paths # <<>>
         THEN <<Created(r.paths[Len(r.paths)], r.late)>> ELSE <<>>
    [] r.kind = "Remove" ->
         IF r.paths # <<>>
         THEN <<Deleted(r.paths[Len(r.paths)], r.late)>> ELSE <<>>
    [] r.kind = "Modify" ->
         IF r.paths # <<>>
         THEN <<Modified(r.paths[Len(r.paths)], r.late)>> ELSE <<>>
    [] r.kind = "Access" ->
         IF r.paths # <<>> THEN <<Other(r)>> ELSE <<>>
    [] OTHER -> <<Other(r)>>

\* Mutant: every arm maps over the first path, so that a record without
\* paths yields None whatever its kind.
fs_event_AllMapped(r) ==
  IF r.paths = <<>> THEN <<>>
  ELSE CASE r.kind = "Create" -> <<Created(Head(r.paths), r.late)>>
         [] r.kind = "Remove" -> <<Deleted(Head(r.paths), r.late)>>
         [] r.kind = "Modify" -> <<Modified(Head(r.paths), r.late)>>
         [] OTHER -> <<Other(r)>>

fs_event(r) ==
  CASE r.kind = "Create" ->
         IF r.paths # <<>> THEN <<Created(Head(r.paths), r.late)>> ELSE <<>>
    [] r.kind = "Remove" ->
         IF r.paths # <<>> THEN <<Deleted(Head(r.paths), r.late)>> ELSE <<>>
    [] r.kind = "Modify" ->
         IF r.paths # <<>> THEN <<Modified(Head(r.paths), r.late)>> ELSE <<>>
    [] r.kind = "Access" ->
         IF r.paths # <<>> THEN <<Other(r)>> ELSE <<>>
    [] r.kind = "Other" -> <<Other(r)>>
    [] OTHER -> <<Other(r)>>

(***************************************************************************)
(* The channel: mpsc::channel(ChannelCapacity).                            *)
(***************************************************************************)
\* blocking_send returns at once with an error when the receiver is gone,
\* and otherwise waits until the queue has room.
\* Mutant: the send never waits for room.
SendReady_NoWait(q, c, rx) == TRUE

SendReady(q, c, rx) == ~rx \/ Len(q) < c

\* Mutant: the newest event is put at the front of the queue.
Enqueue_Front(q, e) == <<e>> \o q

\* The queue after a successful send.
Enqueue(q, e) == Append(q, e)

\* Mutant: recv hands out the oldest event and leaves it in the queue.
Dequeue_Keep(q) == q

\* recv takes the oldest event.
Dequeue(q) == Tail(q)

(***************************************************************************)
(* FileMonitor::new succeeded: nothing is registered, the channel is empty.*)
(***************************************************************************)
InitFs ==
  /\ fs \in { f \in [Paths -> {"dir", "file", "special", "none"}] :
                /\ f[D] = "dir"
                /\ f[Da] \in {"file", "none"}
                /\ f[Db] = "none"
                /\ f[N] = "none"
                /\ f[S] = "special" }
  /\ nops = 0
  /\ lateOps = 0

\* Mutant: new() already registers the directory D with the backend.
InitMonitor_Registered(lists) ==
  /\ paths_to_watch \in lists
  /\ mon = "Constructed"
  /\ startIdx = 0
  /\ probed = <<>>
  /\ registered = <<[path |-> D, mode |-> "Recursive"]>>
  /\ window = <<>>
  /\ rawWindow = <<>>
  /\ batch = <<>>
  /\ batchRaw = <<>>
  /\ batchSent = <<>>
  /\ flushLog = <<>>
  /\ nWatchErr = 0
  /\ chan = <<>>
  /\ txAlive = TRUE
  /\ rxAlive = TRUE
  /\ sentLog = <<>>
  /\ nSendErr = 0
  /\ received = <<>>
  /\ gotNone = FALSE
  /\ elapsed = 0

InitMonitor(lists) ==
  /\ paths_to_watch \in lists
  /\ mon = "Constructed"
  /\ startIdx = 0
  /\ probed = <<>>
  /\ registered = <<>>
  /\ window = <<>>
  /\ rawWindow = <<>>
  /\ batch = <<>>
  /\ batchRaw = <<>>
  /\ batchSent = <<>>
  /\ flushLog = <<>>
  /\ nWatchErr = 0
  /\ chan = <<>>
  /\ txAlive = TRUE
  /\ rxAlive = TRUE
  /\ sentLog = <<>>
  /\ nSendErr = 0
  /\ received = <<>>
  /\ gotNone = FALSE
  /\ elapsed = 0

\* Spec: the pipeline behind one watched directory.
Init == InitFs /\ InitMonitor({<<D>>})

(***************************************************************************)
(* FileMonitor::start: one loop iteration per action, since the file       *)
(* system and the debounce thread run while the loop does.                 *)
(***************************************************************************)
\* Path::is_dir / Path::is_file
is_dir(t) == t = "dir"
is_file(t) == t = "file"

\* Mutant: a path that is neither file nor directory fails start().
OnMissing_Fail(m) == "StartFailed"

\* The else arm of start(): the path is only warned about.
OnMissing(m) == m

\* Mutant: a path that is neither file nor directory is watched all the same.
SkipPath_Watch(regs, path) ==
  Append(regs, [path |-> path, mode |-> "NonRecursive"])

\* The registrations after the else arm of start(): no watch call is made.
SkipPath(regs, path) == regs

\* Mutant: start() asks for a non-recursive watch whatever the path is.
WatchMode_NonRecursive(t) == "NonRecursive"

\* The mode start() passes to watch() for a path found to be t.
WatchMode(t) == IF is_dir(t) THEN "Recursive" ELSE "NonRecursive"

StartCall ==
  /\ mon = "Constructed"
  /\ mon' = "Starting"
  /\ startIdx' = 1
  /\ UNCHANGED <<paths_to_watch, probed, registered>>
  /\ UNCHANGED <<fsVars, debVars, cbVars, chanVars, rxVars>>

\* watchOk: whether the backend's watch() call, if one is made, succeeds.
StartStep(watchOk) ==
  /\ mon = "Starting"
  /\ startIdx <= Len(paths_to_watch)
  /\ LET path == paths_to_watch[startIdx]
         t == fs[path]
     IN  IF is_dir(t) \/ is_file(t)
         THEN /\ probed' = Append(probed, [path |-> path, found |-> t])
              /\ IF watchOk
                 THEN /\ registered' =
                           Append(registered,
                                  [path |-> path, mode |-> WatchMode(t)])
                      /\ startIdx' = startIdx + 1
                      /\ mon' = mon
                 ELSE \* watch(..)? returns the error to the caller
                      /\ mon' = "StartFailed"
                      /\ UNCHANGED <<registered, startIdx>>
         ELSE \* warn!("Path does not exist or is not a file/directory")
              /\ watchOk
              /\ probed' = Append(probed, [path |-> path, found |-> "missing"])
              /\ startIdx' = startIdx + 1
              /\ mon' = OnMissing(mon)
              /\ registered' = SkipPath(registered, path)
  /\ UNCHANGED paths_to_watch
  /\ UNCHANGED <<fsVars, debVars, cbVars, chanVars, rxVars>>

\* Ok(())
StartReturn ==
  /\ mon = "Starting"
  /\ startIdx > Len(paths_to_watch)
  /\ mon' = "Watching"
  /\ UNCHANGED <<paths_to_watch, startIdx, probed, registered>>
  /\ UNCHANGED <<fsVars, debVars, cbVars, chanVars, rxVars>>

(***************************************************************************)
(* Dropping the FileMonitor drops _debouncer and with it the watcher: the  *)
(* backend's registrations are released.  start() borrows the monitor, so  *)
(* it cannot be dropped while start() runs.                                *)
(***************************************************************************)
\* Mutant: the registrations outlive the FileMonitor.
ReleaseWatches_Keep(regs) == regs

ReleaseWatches(regs) == <<>>

\* Mutant: the drop waits until the callback has finished its batch.
DropMonitor_Join ==
  /\ batch = <<>>
  /\ mon \in {"Constructed", "Watching", "StartFailed"}
  /\ mon' = "Stopped"
  /\ registered' = ReleaseWatches(registered)
  /\ UNCHANGED <<paths_to_watch, startIdx, probed>>
  /\ UNCHANGED <<fsVars, debVars, cbVars, chanVars, rxVars>>

DropMonitor ==
  /\ mon \in {"Constructed", "Watching", "StartFailed"}
  /\ mon' = "Stopped"
  /\ registered' = ReleaseWatches(registered)
  /\ UNCHANGED <<paths_to_watch, startIdx, probed>>
  /\ UNCHANGED <<fsVars, debVars, cbVars, chanVars, rxVars>>

(***************************************************************************)
(* Debouncer (specification, section 4.2): raw records are buffered keyed  *)
(* by path and kind class; a repeated key keeps its first-seen place and   *)
(* takes the latest record; a flush hands the window to the callback.      *)
(***************************************************************************)
Key(r) == <<r.kind, IF r.paths = <<>> THEN NoPath ELSE Head(r.paths)>>

\* Mutant: every raw record becomes a settled record of its own.
Coalesce_Append(w, r) == Append(w, r)

Coalesce(w, r) ==
  IF \E i \in 1..Len(w) : Key(w[i]) = Key(r)
  THEN [i \in 1..Len(w) |-> IF Key(w[i]) = Key(r) THEN r ELSE w[i]]
  ELSE Append(w, r)

\* The registrations cover path p: p itself, or p below a recursive watch.
Covered(p) ==
  \E i \in 1..Len(registered) :
     \/ registered[i].path = p
     \/ registered[i].mode = "Recursive" /\ IsUnder(p, registered[i].path)

\* The backend reports a change of path p as a raw record (k, ps).
Notify(p, k, ps) ==
  IF Covered(p)
  THEN /\ window' = Coalesce(window, Rec(k, ps, mon = "Stopped"))
       /\ rawWindow' = Append(rawWindow, Rec(k, ps, mon = "Stopped"))
  ELSE UNCHANGED debVars

Flush ==
  /\ txAlive
  /\ batch = <<>>
  /\ window # <<>>
  /\ batch' = window
  /\ batchRaw' = rawWindow
  /\ batchSent' = <<>>
  /\ flushLog' = flushLog \o window
  /\ window' = <<>>
  /\ rawWindow' = <<>>
  /\ UNCHANGED nWatchErr
  /\ UNCHANGED <<fsVars, startVars, chanVars, rxVars>>

\* The debounce thread ends after the FileMonitor was dropped, between two
\* callbacks; the callback and the sender it owns are dropped with it.
ThreadExit ==
  /\ mon = "Stopped"
  /\ txAlive
  /\ batch = <<>>
  /\ txAlive' = FALSE
  /\ window' = <<>>
  /\ rawWindow' = <<>>
  /\ UNCHANGED <<chan, rxAlive, sentLog, nSendErr>>
  /\ UNCHANGED <<fsVars, startVars, cbVars, rxVars>>

(***************************************************************************)
(* The debounce callback, Ok(events) arm: one iteration of                 *)
(* `for event in events` per action (the send may suspend).                *)
(***************************************************************************)
\* What is left of the batch after a send failed: the error is logged and
\* the loop goes on with the next record.
\* Mutant: the callback gives the batch up at the first failed send.
AfterSendError_Abort(b) == <<>>

AfterSendError(b) == Tail(b)

CallbackStep ==
  /\ batch # <<>>
  /\ LET ev == fs_event(Head(batch))
     IN  IF ev = <<>>
         THEN /\ batch' = Tail(batch)
              /\ UNCHANGED <<batchSent, chanVars>>
         ELSE /\ SendReady(chan, ChannelCapacity, rxAlive)
              /\ IF rxAlive
                 THEN /\ chan' = Enqueue(chan, ev[1])
                      /\ sentLog' = Append(sentLog, ev[1])
                      /\ batchSent' = Append(batchSent, ev[1])
                      /\ batch' = Tail(batch)
                      /\ UNCHANGED nSendErr
                 ELSE \* error!("Failed to send file system event ...")
                      /\ nSendErr' = nSendErr + 1
                      /\ batch' = AfterSendError(batch)
                      /\ UNCHANGED <<chan, sentLog, batchSent>>
              /\ UNCHANGED <<txAlive, rxAlive>>
  /\ UNCHANGED <<batchRaw, flushLog, nWatchErr>>
  /\ UNCHANGED <<fsVars, startVars, debVars, rxVars>>

(***************************************************************************)
(* The consumer: rx.recv() in the agent's loop, or dropping the receiver.  *)
(***************************************************************************)
\* recv returns None: the queue is drained and the sender is gone.
\* Mutant: recv returns None as soon as the sender is gone.
RecvClosed_IgnoreQueue(q, tx) == ~tx

RecvClosed(q, tx) == q = <<>> /\ ~tx

Recv ==
  /\ rxAlive
  /\ chan # <<>>
  /\ received' = Append(received, Head(chan))
  /\ chan' = Dequeue(chan)
  /\ UNCHANGED <<txAlive, rxAlive, sentLog, nSendErr, gotNone, elapsed>>
  /\ UNCHANGED <<fsVars, startVars, debVars, cbVars>>

RecvNone ==
  /\ rxAlive
  /\ ~gotNone
  /\ RecvClosed(chan, txAlive)
  /\ gotNone' = TRUE
  /\ UNCHANGED <<received, elapsed>>
  /\ UNCHANGED <<fsVars, startVars, debVars, cbVars, chanVars>>

\* Dropping the receiver closes the channel and discards what is queued.
DropReceiver ==
  /\ rxAlive
  /\ rxAlive' = FALSE
  /\ chan' = <<>>
  /\ UNCHANGED <<txAlive, sentLog, nSendErr>>
  /\ UNCHANGED <<fsVars, startVars, debVars, cbVars, rxVars>>

(***************************************************************************)
(* The environment: changes of the file system, and records the backend    *)
(* produces on its own.                                                    *)
(***************************************************************************)
\* One more operation of the environment, of at most limit.
CountOp(limit) ==
  /\ nops < limit
  /\ nops' = nops + 1
  /\ lateOps' = IF mon = "Stopped" THEN lateOps + 1 ELSE lateOps

FsCreate(p, limit) ==
  /\ CountOp(limit)
  /\ fs[p] = "none"
  /\ fs' = [fs EXCEPT ![p] = "file"]
  /\ Notify(p, "Create", <<p>>)
  /\ UNCHANGED <<startVars, cbVars, chanVars, rxVars>>

FsWrite(p, limit) ==
  /\ CountOp(limit)
  /\ fs[p] = "file"
  /\ Notify(p, "Modify", <<p>>)
  /\ UNCHANGED <<fs, startVars, cbVars, chanVars, rxVars>>

FsRead(p, limit) ==
  /\ CountOp(limit)
  /\ fs[p] = "file"
  /\ Notify(p, "Access", <<p>>)
  /\ UNCHANGED <<fs, startVars, cbVars, chanVars, rxVars>>

FsRemove(p, limit) ==
  /\ CountOp(limit)
  /\ fs[p] = "file"
  /\ fs' = [fs EXCEPT ![p] = "none"]
  /\ Notify(p, "Remove", <<p>>)
  /\ UNCHANGED <<startVars, cbVars, chanVars, rxVars>>

\* A rename is reported as one record carrying both paths.
FsRename(p, q, limit) ==
  /\ CountOp(limit)
  /\ fs[p] = "file"
  /\ fs[q] = "none"
  /\ fs' = [fs EXCEPT ![p] = "none", ![q] = "file"]
  /\ Notify(p, "Modify", <<p, q>>)
  /\ UNCHANGED <<startVars, cbVars, chanVars, rxVars>>

\* Records the backend produces without a file changing: records with no
\* path (a rescan) and records of kinds the callback does not name.
Notices ==
  { <<k, <<>>>> : k \in Kinds } \cup { <<"Other", <<D>>>>, <<"Any", <<Da>>>> }

BackendNotice(n, limit) ==
  /\ CountOp(limit)
  /\ Covered(D)
  /\ Notify(D, n[1], n[2])
  /\ UNCHANGED <<fs, startVars, cbVars, chanVars, rxVars>>

\* Mutant: an error batch ends the pipeline, the sender is dropped.
AfterWatchError_Stop(tx) == FALSE

\* The sender after the Err arm of the callback: the error is only logged.
AfterWatchError(tx) == tx

\* The backend reports an error and the debounce thread, between two
\* batches, hands it to the callback as Err(errors).
ErrorBatch(limit) ==
  /\ CountOp(limit)
  /\ mon # "Stopped"
  /\ txAlive
  /\ batch = <<>>
  /\ nWatchErr' = nWatchErr + 1
  /\ txAlive' = AfterWatchError(txAlive)
  /\ UNCHANGED <<batch, batchRaw, batchSent, flushLog>>
  /\ UNCHANGED <<chan, rxAlive, sentLog, nSendErr>>
  /\ UNCHANGED <<fs, startVars, debVars, rxVars>>

(***************************************************************************)
(* The agent's main loop: each iteration runs one select! over a sleep of  *)
(* check_interval_seconds made for that iteration and, the receiver being  *)
(* stored, rx.recv().  The loop runs once start() has returned Ok.         *)
(***************************************************************************)
LoopRunning == mon \in {"Watching", "Stopped"}

\* The sleep of the iteration that follows a handled event or a check:
\* sleep(..) is called anew, nothing of the old one is kept.
NextSleep(e) == 0

\* The pipeline of a FileMonitor that is alive sends one more event.  The
\* histories of the pipeline are not kept here, so that a run of the loop
\* may go on for ever.
MainSend ==
  /\ mon = "Watching"
  /\ Covered(Da)
  /\ txAlive
  /\ rxAlive
  /\ SendReady(chan, ChannelCapacity, rxAlive)
  /\ chan' = Enqueue(chan, Modified(Da, FALSE))
  /\ UNCHANGED <<txAlive, rxAlive, sentLog, nSendErr>>
  /\ UNCHANGED <<fsVars, startVars, debVars, cbVars, rxVars>>

\* A second passes while the select! waits.
MainTick ==
  /\ LoopRunning
  /\ elapsed < check_interval_seconds
  /\ elapsed' = elapsed + 1
  /\ UNCHANGED <<received, gotNone>>
  /\ UNCHANGED <<fsVars, startVars, debVars, cbVars, chanVars>>

\* The sleep branch: the system check is performed, the loop iterates.
MainCheck ==
  /\ LoopRunning
  /\ elapsed = check_interval_seconds
  /\ elapsed' = NextSleep(elapsed)
  /\ UNCHANGED <<received, gotNone>>
  /\ UNCHANGED <<fsVars, startVars, debVars, cbVars, chanVars>>

\* The recv branch: Some(event) is logged, the loop iterates.
MainRecv ==
  /\ LoopRunning
  /\ rxAlive
  /\ chan # <<>>
  /\ chan' = Dequeue(chan)
  /\ elapsed' = NextSleep(elapsed)
  /\ UNCHANGED <<received, gotNone>>
  /\ UNCHANGED <<txAlive, rxAlive, sentLog, nSendErr>>
  /\ UNCHANGED <<fsVars, startVars, debVars, cbVars>>

\* recv returns None: the pattern Some(event) does not match, the branch is
\* disabled and the select! goes on waiting for its sleep.
MainRecvNone ==
  /\ LoopRunning
  /\ RecvNone

\* The FileMonitor goes out of scope after start().
MainDrop ==
  /\ mon = "Watching"
  /\ DropMonitor

(***************************************************************************)
(* Specifications.                                                         *)
(***************************************************************************)
Next ==
  \/ StartCall
  \/ \E ok \in BOOLEAN : StartStep(ok)
  \/ StartReturn
  \/ DropMonitor
  \/ Flush
  \/ ThreadExit
  \/ CallbackStep
  \/ Recv
  \/ RecvNone
  \/ DropReceiver
  \/ FsCreate(Da, MaxOps)
  \/ FsWrite(Da, MaxOps)
  \/ FsRead(Da, MaxOps)
  \/ FsRemove(Da, MaxOps)
  \/ FsRename(Da, Db, MaxOps)
  \/ \E n \in Notices : BackendNotice(n, MaxOps)
  \/ ErrorBatch(MaxOps)

Spec == Init /\ [][Next]_vars

(***************************************************************************)
(* The same pipeline under the scheduling the liveness claims assume: the  *)
(* debounce thread keeps running (flush, callback, exit after a drop) and  *)
(* the consumer keeps calling recv.                                        *)
(***************************************************************************)
Fairness ==
  /\ WF_vars(Flush)
  /\ WF_vars(CallbackStep)
  /\ WF_vars(ThreadExit)
  /\ WF_vars(Recv)
  /\ WF_vars(RecvNone)

FairSpec == Init /\ [][Next]_vars /\ Fairness

(***************************************************************************)
(* start() over every path list of PathLists, with a file created,         *)
(* written and removed under D and a consumer that keeps its receiver.     *)
(***************************************************************************)
InitStart == InitFs /\ InitMonitor(PathLists)

NextStart ==
  \/ StartCall
  \/ \E ok \in BOOLEAN : StartStep(ok)
  \/ StartReturn
  \/ DropMonitor
  \/ Flush
  \/ ThreadExit
  \/ CallbackStep
  \/ Recv
  \/ RecvNone
  \/ FsCreate(Da, MaxStartOps)
  \/ FsWrite(Da, MaxStartOps)
  \/ FsRemove(Da, MaxStartOps)

SpecStart == InitStart /\ [][NextStart]_vars

\* The same with a debounce thread that keeps running and a consumer that
\* keeps receiving.
FairStart == SpecStart /\ Fairness

(***************************************************************************)
(* Load scenario that fills the channel: once start() has                  *)
(* returned, one watched file is written again and again, once per         *)
(* debounce window, while the consumer receives at any pace.               *)
(***************************************************************************)
InitLoad ==
  /\ fs = [p \in Paths |->
             IF p = D THEN "dir" ELSE IF p = Da THEN "file"
             ELSE IF p = S THEN "special" ELSE "none"]
  /\ nops = 0
  /\ lateOps = 0
  /\ InitMonitor({<<Da>>})

LoadWrite ==
  /\ mon = "Watching"
  /\ Covered(Da)
  /\ window = <<>>
  /\ FsWrite(Da, MaxLoadOps)

NextLoad ==
  \/ StartCall
  \/ \E ok \in BOOLEAN : StartStep(ok)
  \/ StartReturn
  \/ LoadWrite
  \/ Flush
  \/ CallbackStep
  \/ Recv

SpecLoad == InitLoad /\ [][NextLoad]_vars

\* The load scenario with a debounce thread that keeps running and a
\* consumer that keeps receiving.
FairLoad ==
  SpecLoad /\ WF_vars(Flush) /\ WF_vars(CallbackStep) /\ WF_vars(Recv)

(***************************************************************************)
(* The load scenario with teardown: the FileMonitor is dropped while the   *)
(* callback waits in its send on the full channel; after that the consumer *)
(* goes on receiving or drops its receiver.                                *)
(***************************************************************************)
\* The producer has an event to send, the channel is full and the receiver
\* is alive.
Suspended ==
  /\ rxAlive
  /\ Len(chan) = ChannelCapacity
  /\ batch # <<>>
  /\ fs_event(Head(batch)) # <<>>

DropWhileSuspended == Suspended /\ DropMonitor

DropReceiverAfterwards == mon = "Stopped" /\ DropReceiver

NextTeardown ==
  \/ NextLoad
  \/ DropWhileSuspended
  \/ DropReceiverAfterwards
  \/ ThreadExit
  \/ RecvNone

SpecTeardown == InitLoad /\ [][NextTeardown]_vars

FairTeardown == SpecTeardown /\ Fairness

(***************************************************************************)
(* The agent: start() on one existing directory, then the main loop, with  *)
(* a FileMonitor that is kept alive or goes out of scope.  The agent's     *)
(* code proceeds, time passes, a branch of the select! that is ready is    *)
(* taken, and a debounce thread told to stop ends.                         *)
(***************************************************************************)
NextMain ==
  \/ StartCall
  \/ StartStep(TRUE)
  \/ StartReturn
  \/ MainDrop
  \/ ThreadExit
  \/ MainSend
  \/ MainTick
  \/ MainCheck
  \/ MainRecv
  \/ MainRecvNone

SpecMain == Init /\ [][NextMain]_vars

FairMain ==
  /\ SpecMain
  /\ WF_vars(StartCall) /\ WF_vars(StartStep(TRUE)) /\ WF_vars(StartReturn)
  /\ WF_vars(ThreadExit)
  /\ WF_vars(MainTick) /\ WF_vars(MainCheck)
  /\ WF_vars(MainRecv) /\ WF_vars(MainRecvNone)


(***************************************************************************)
(* Vocabulary of the claims.                                               *)
(***************************************************************************)
IsPrefix(a, b) == Len(a) <= Len(b) /\ a = SubSeq(b, 1, Len(a))

\* A step in which the callback finishes the record at the head of the batch.
HandlesHead == batch # <<>> /\ batch' # batch

\* The classification table of the specification (section 4.3) for a record
\* with at least one path.
TableEvent(r) ==
  IF r.kind = "Create" THEN Created(r.paths[1], r.late)
  ELSE IF r.kind = "Remove" THEN Deleted(r.paths[1], r.late)
  ELSE IF r.kind = "Modify" THEN Modified(r.paths[1], r.late)
  ELSE Other(r)

\* The step makes exactly one send attempt, of event e: e is enqueued, or,
\* the receiver being gone, the send fails and is logged.
AttemptsOnly(e) ==
  IF rxAlive
  THEN /\ sentLog' = Append(sentLog, e)
       /\ chan' = Append(chan, e)
       /\ nSendErr' = nSendErr
  ELSE /\ sentLog' = sentLog
       /\ chan' = chan
       /\ nSendErr' = nSendErr + 1

\* The records of flushed batches the callback is done with, and the events
\* their classification yields, in that order.
Handled == SubSeq(flushLog, 1, Len(flushLog) - Len(batch))

RECURSIVE EventsOf(_)
EventsOf(rs) ==
  IF rs = <<>> THEN <<>> ELSE fs_event(Head(rs)) \o EventsOf(Tail(rs))

\* Any record or event of sequence q stems from a change made after the
\* FileMonitor was dropped.
AnyLate(q) == \E i \in 1..Len(q) : q[i].late

\* The number of Modify records of q whose (first) path is p, and of
\* Modified(p) events of q.
ModifyCount(q, p) ==
  Cardinality({ i \in 1..Len(q) :
                  /\ q[i].kind = "Modify"
                  /\ q[i].paths # <<>>
                  /\ Head(q[i].paths) = p })
ModifiedCount(q, p) ==
  Cardinality({ i \in 1..Len(q) : q[i].tag = "Modified" /\ q[i].path = p })

\* The registrations start() has made after probing as pr says, if every
\* watch call succeeded.
RECURSIVE RegistrationsOf(_)
RegistrationsOf(pr) ==
  IF pr = <<>> THEN <<>>
  ELSE LET h == Head(pr)
       IN  (IF h.found = "missing" THEN <<>>
            ELSE <<[path |-> h.path, mode |-> WatchMode(h.found)]>>)
           \o RegistrationsOf(Tail(pr))

\* Event e carries path p or a path under p.
EventMentions(e, p) ==
  \/ e.path = p
  \/ IsUnder(e.path, p)
  \/ \E k \in 1..Len(e.paths) : e.paths[k] = p \/ IsUnder(e.paths[k], p)

\* The paths start() found missing (or neither file nor directory).
SkippedPaths ==
  { probed[i].path : i \in { j \in 1..Len(probed) : probed[j].found = "missing" } }

\* The number of records of q of kind k whose (first) path is p, and of
\* events of q with tag t and path p.
RecordCount(q, k, p) ==
  Cardinality({ i \in 1..Len(q) :
                  /\ q[i].kind = k
                  /\ q[i].paths # <<>>
                  /\ Head(q[i].paths) = p })
EventCount(q, t, p) ==
  Cardinality({ i \in 1..Len(q) : q[i].tag = t /\ q[i].path = p })

\* The first n elements of q, or all of q if it has fewer.
First(q, n) == SubSeq(q, 1, IF Len(q) < n THEN Len(q) ELSE n)

\* The records of a create, a write and a removal of D/a, and their events.
Cycle ==
  << Rec("Create", <<Da>>, FALSE),
     Rec("Modify", <<Da>>, FALSE),
     Rec("Remove", <<Da>>, FALSE) >>
CycleEvents ==
  << Created(Da, FALSE), Modified(Da, FALSE), Deleted(Da, FALSE) >>

\* The step is a change of D/a: the record the backend makes of it.
ChangeRecord ==
  IF fs[Da] = "none" THEN Rec("Create", <<Da>>, FALSE)
  ELSE IF fs'[Da] = "none" THEN Rec("Remove", <<Da>>, FALSE)
  ELSE Rec("Modify", <<Da>>, FALSE)

\* Nothing is on its way: the window, the batch and the channel are empty.
Quiet == window = <<>> /\ batch = <<>> /\ chan = <<>>

\* The step attempts no send.
AttemptsNothing ==
  sentLog' = sentLog /\ chan' = chan /\ nSendErr' = nSendErr

(***************************************************************************)
(* C1: for every settled record with at least one path the callback makes  *)
(* exactly one send attempt, of the event the record's kind class selects: *)
(* Created, Deleted or Modified of the first path, or Other of the raw     *)
(* record for access, other and unrecognized kinds; the record is then     *)
(* done with, and no event ever enqueued is the Renamed variant.           *)
(***************************************************************************)
C1_ClassifiedByKind ==
  /\ [][ (HandlesHead /\ Head(batch).paths # <<>>)
           => /\ AttemptsOnly(TableEvent(Head(batch)))
              /\ batch' = Tail(batch) ]_vars
  /\ [](\A i \in 1..Len(sentLog) : sentLog[i].tag # "Renamed")

\* A two-path record was handled and reported as Modified of its first path.
C1_Witness ==
  /\ batch = <<>>
  /\ \E i \in 1..Len(flushLog) : flushLog[i].paths = <<Da, Db>>
  /\ sentLog = <<Modified(Da, FALSE)>>

(***************************************************************************)
(* C2 as stated: the callback attempts no send only for records with no    *)
(* path, and a record with no path causes no send whatever its kind.       *)
(***************************************************************************)
C2_AsStated ==
  /\ [][ (HandlesHead /\ AttemptsNothing) => Head(batch).paths = <<>> ]_vars
  /\ [][ (HandlesHead /\ Head(batch).paths = <<>>) => AttemptsNothing ]_vars

(***************************************************************************)
(* C2 amended: the callback attempts no send only for records with no      *)
(* path; a record with no path of kind create, remove, modify or access    *)
(* causes no send, while one of kind other or unrecognized is still sent   *)
(* as Other(raw record).                                                   *)
(***************************************************************************)
C2_ZeroPaths ==
  /\ [][ (HandlesHead /\ AttemptsNothing) => Head(batch).paths = <<>> ]_vars
  /\ [][ (HandlesHead /\ Head(batch).paths = <<>>)
           => IF Head(batch).kind \in {"Create", "Remove", "Modify", "Access"}
              THEN AttemptsNothing
              ELSE AttemptsOnly(Other(Head(batch))) ]_vars

\* Both cases happened: a record without paths was dropped silently, and
\* one of kind other was enqueued.
C2_Witness ==
  /\ batch = <<>>
  /\ Len(flushLog) = 2
  /\ \A i \in 1..2 : flushLog[i].paths = <<>>
  /\ flushLog[1].kind = "Create"
  /\ sentLog = <<Other(Rec("Other", <<>>, FALSE))>>

(***************************************************************************)
(* C3: the number of events queued in the channel never exceeds the        *)
(* capacity the channel was built with, 100.                               *)
(***************************************************************************)
C3_Bounded == Len(chan) <= ChannelCapacity

\* The channel is full and the producer has another event to send.
C3_Witness ==
  /\ Len(chan) = ChannelCapacity
  /\ batch # <<>>
  /\ fs_event(Head(batch)) # <<>>

(***************************************************************************)
(* C4: with the receiver alive, a send on a full channel suspends: the     *)
(* record stays at the head of the batch, nothing is dropped and the queue *)
(* does not grow; every event classified is enqueued, none is lost or      *)
(* duplicated on its way to the consumer, and with a consumer that keeps   *)
(* receiving every enqueued event is received, the one whose send had to   *)
(* wait included.                                                          *)
(***************************************************************************)
C4_Backpressure ==
  /\ [](rxAlive => /\ Len(chan) <= ChannelCapacity
                   /\ nSendErr = 0
                   /\ sentLog = EventsOf(Handled)
                   /\ sentLog = received \o chan)
  /\ [][ Suspended => /\ ~ENABLED CallbackStep
                      /\ batch' = batch
                      /\ sentLog' = sentLog
                      /\ Len(chan') <= Len(chan) ]_vars
  /\ (Len(sentLog) > ChannelCapacity) ~> (Len(received) > ChannelCapacity)
  /\ <>[](received = sentLog)

\* The channel is full and the producer waits with its next event.
C4_Witness == Suspended /\ ~ENABLED CallbackStep /\ Len(received) >= 1

(***************************************************************************)
(* C5: the consumer receives the events in the order the flush step        *)
(* emitted them: the events enqueued are those of the handled records in   *)
(* flush order (batch after batch, each in its own order), and what was    *)
(* received is always a prefix of what was enqueued.                       *)
(***************************************************************************)
C5_Ordered ==
  /\ IsPrefix(received, sentLog)
  /\ IsPrefix(sentLog, EventsOf(Handled))
  /\ rxAlive => /\ sentLog = EventsOf(Handled)
                /\ sentLog = received \o chan

\* Two different events of two flushes are queued, the earlier one first.
C5_Witness ==
  /\ Len(chan) = 2
  /\ chan[1] # chan[2]
  /\ batchSent = <<chan[2]>>
  /\ flushLog[1].kind = "Create"

(***************************************************************************)
(* C6: once the receiver is dropped, every send the callback attempts      *)
(* fails and is only logged: nothing is enqueued, the callback goes on     *)
(* with the rest of the batch and with later batches, it is never          *)
(* suspended, and the debounce thread and its sender stay as they are.     *)
(***************************************************************************)
C6_ClosedChannel ==
  /\ [][ (~rxAlive /\ HandlesHead /\ fs_event(Head(batch)) # <<>>)
           => /\ nSendErr' = nSendErr + 1
              /\ AttemptsOnly(fs_event(Head(batch))[1])
              /\ batch' = Tail(batch)
              /\ txAlive' = txAlive
              /\ window' = window ]_vars
  /\ [](Len(EventsOf(Handled)) = Len(sentLog) + nSendErr)
  /\ [](~rxAlive => /\ chan = <<>>
                    /\ batch # <<>> => ENABLED CallbackStep
                    /\ mon # "Stopped" => txAlive
                    /\ (txAlive /\ batch = <<>> /\ window # <<>>)
                         => ENABLED Flush)

\* Two sends of two batches failed after the receiver was dropped.
C6_Witness ==
  /\ ~rxAlive
  /\ nSendErr = 2
  /\ Len(flushLog) = 2
  /\ Len(batchRaw) = 1
  /\ batch = <<>>

(***************************************************************************)
(* C7: after the FileMonitor is dropped, a consumer that keeps receiving   *)
(* gets every event enqueued, the buffered ones included, before recv      *)
(* returns None, and it does eventually get None: the debounce thread ends *)
(* and drops the sender.                                                   *)
(***************************************************************************)
C7_DrainThenNone ==
  /\ [](gotNone => /\ mon = "Stopped"
                   /\ ~txAlive
                   /\ chan = <<>>
                   /\ rxAlive => received = sentLog)
  /\ [][gotNone => received' = received]_vars
  /\ (mon = "Stopped") ~> (gotNone \/ ~rxAlive)

\* The sender is gone, two events are still buffered, the consumer has not
\* seen the end of the channel yet.
C7_Witness ==
  /\ mon = "Stopped"
  /\ ~txAlive
  /\ rxAlive
  /\ ~gotNone
  /\ Len(chan) = 2

C9_Coalesced ==
  \A p \in Paths :
    /\ ModifyCount(window, p) = IF ModifyCount(rawWindow, p) >= 1 THEN 1 ELSE 0
    /\ ModifiedCount(batchSent, p) + ModifyCount(batch, p)
         <= IF ModifyCount(batchRaw, p) >= 1 THEN 1 ELSE 0
    /\ rxAlive =>
         ModifiedCount(batchSent, p) + ModifyCount(batch, p)
           = IF ModifyCount(batchRaw, p) >= 1 THEN 1 ELSE 0

\* Two writes of D/a fell into one window and its batch sent one event.
C9_Witness ==
  /\ ModifyCount(batchRaw, Da) = 2
  /\ batchRaw[1].paths = <<Da>>
  /\ batchRaw[2].paths = <<Da>>
  /\ batch = <<>>
  /\ batchSent = <<Modified(Da, FALSE)>>
  /\ chan = batchSent

(***************************************************************************)
(* C10: a path of the list that does not exist, or is neither file nor     *)
(* directory, is skipped by start() and never makes it fail: the loop goes *)
(* on with the next path, start() can fail only in the watch call of a     *)
(* path it found existing, and when it returns Ok it has gone through the  *)
(* whole list and registered every path it found existing, in order; that  *)
(* may be none.                                                            *)
(***************************************************************************)
C10_MissingSkipped ==
  /\ [][ (probed' # probed /\ probed'[Len(probed')].found = "missing")
           => /\ mon' = "Starting"
              /\ startIdx' = startIdx + 1
              /\ registered' = registered ]_vars
  /\ [](mon = "StartFailed" =>
          /\ probed # <<>>
          /\ probed[Len(probed)].found # "missing")
  /\ [](mon = "Watching" =>
          /\ Len(probed) = Len(paths_to_watch)
          /\ \A i \in 1..Len(probed) : probed[i].path = paths_to_watch[i]
          /\ registered = RegistrationsOf(probed))
  /\ [](mon = "Starting" =>
          IF startIdx > Len(paths_to_watch)
          THEN ENABLED StartReturn
          ELSE ~(is_dir(fs[paths_to_watch[startIdx]])
                   \/ is_file(fs[paths_to_watch[startIdx]]))
                 => ENABLED StartStep(TRUE))

\* start() returned Ok for a list whose first and last paths were skipped
\* and whose middle path was registered.
C10_Witness ==
  /\ mon = "Watching"
  /\ paths_to_watch = <<S, D, Da>>
  /\ probed[1].found = "missing"
  /\ probed[3].found = "missing"
  /\ registered = <<[path |-> D, mode |-> "Recursive"]>>

(***************************************************************************)
(* C11, as stated: once start() has returned, no event is sent whose path  *)
(* is, or lies under, a path start() skipped.                              *)
(***************************************************************************)
C11_AsStated ==
  [][ (mon = "Watching" /\ sentLog' # sentLog)
        => \A p \in SkippedPaths :
             ~EventMentions(sentLog'[Len(sentLog')], p) ]_vars

(***************************************************************************)
(* C11, amended: a path start() skipped gets no registration of its own,   *)
(* and an event whose path is, or lies under, such a path is sent only if  *)
(* the path lies inside a directory of the list that start() found and     *)
(* watches recursively.                                                    *)
(***************************************************************************)
C11_OnlyThroughParent ==
  \A p \in SkippedPaths :
    /\ Cardinality({ j \in 1..Len(registered) : registered[j].path = p })
         <= Cardinality({ j \in 1..Len(probed) :
                            probed[j].path = p /\ probed[j].found # "missing" })
    /\ (\E k \in 1..Len(sentLog) : EventMentions(sentLog[k], p))
         => \E j \in 1..Len(probed) :
              /\ probed[j].found = "dir"
              /\ IsUnder(p, probed[j].path)

\* The only path of the list was missing when start() ran; it was created
\* and written afterwards, and nothing was sent.
C11_Witness ==
  /\ paths_to_watch = <<Da>>
  /\ mon = "Watching"
  /\ probed[1].found = "missing"
  /\ fs[Da] = "file"
  /\ nops >= 2
  /\ sentLog = <<>>
  /\ window = <<>>

(***************************************************************************)
(* C12, as stated: whatever start() finds for a path of the list, a failed *)
(* watch call included, it passes over that path, goes on with the next    *)
(* one and never returns an error.                                         *)
(***************************************************************************)
C12_AsStated ==
  /\ [][ (mon = "Starting" /\ probed' # probed)
           => /\ mon' = "Starting"
              /\ startIdx' = startIdx + 1 ]_vars
  /\ [](mon # "StartFailed")

(***************************************************************************)
(* C13, as stated: whatever the list, no path is registered with the       *)
(* backend more than once.                                                 *)
(***************************************************************************)
C13_AsStated ==
  \A p \in Paths :
    Cardinality({ j \in 1..Len(registered) : registered[j].path = p }) <= 1

(***************************************************************************)
(* C14: an error batch given to the callback is only logged: the step      *)
(* changes neither the channel nor the sender, the window or the batch     *)
(* log, and the batches flushed after it are classified and sent as ever:  *)
(* what was sent stays the classification of the handled records, and a    *)
(* batch in flight after an error is handled to its end.                   *)
(***************************************************************************)
C14_ErrorBatchLogged ==
  /\ [][ nWatchErr' # nWatchErr
           => /\ nWatchErr' = nWatchErr + 1
              /\ UNCHANGED <<chan, sentLog, nSendErr, txAlive, rxAlive>>
              /\ UNCHANGED <<window, batch, flushLog, received, registered>> ]_vars
  /\ [](rxAlive => sentLog = EventsOf(Handled))
  /\ []((nWatchErr >= 1 /\ mon # "Stopped") => txAlive)
  /\ (nWatchErr >= 1 /\ batch # <<>>) ~> (batch = <<>>)
  /\ (nWatchErr >= 1 /\ window # <<>>) ~> (window = <<>>)

\* An error batch was logged, and a record that arrived after it was
\* flushed, sent and received.
C14_Witness ==
  /\ nWatchErr = 1
  /\ nops = 2
  /\ Len(flushLog) = 1
  /\ flushLog[1].kind = "Create"
  /\ received = <<Created(Da, FALSE)>>
  /\ window = <<>>
  /\ rawWindow = <<>>

(***************************************************************************)
(* C15, as stated: between new() and start() nothing is registered and the *)
(* channel stays empty, and an event is enqueued only while the monitor is *)
(* in the Watching state.                                                  *)
(***************************************************************************)
C15_AsStated ==
  /\ [](mon = "Constructed" => registered = <<>> /\ chan = <<>>)
  /\ [][sentLog' # sentLog => mon = "Watching"]_vars

(***************************************************************************)
(* C15, amended: between new() and start() nothing is registered, no       *)
(* record reaches the debouncer and nothing is sent or received, whatever  *)
(* happens on the file system; a record enters the window only while some  *)
(* path is registered, and an event is enqueued only once start() has      *)
(* been called: while it runs, after it returned Ok or an error, or after  *)
(* the drop that followed.                                                 *)
(***************************************************************************)
C15_NothingBeforeStart ==
  /\ [](mon = "Constructed" =>
          /\ registered = <<>>
          /\ rawWindow = <<>> /\ window = <<>> /\ flushLog = <<>>
          /\ chan = <<>> /\ sentLog = <<>> /\ received = <<>>)
  /\ [][ (rawWindow' # rawWindow /\ rawWindow' # <<>>) => registered # <<>> ]_vars
  /\ [](sentLog # <<>> => probed # <<>>)
  /\ [][ sentLog' # sentLog
           => mon \in {"Starting", "Watching", "StartFailed", "Stopped"} ]_vars

\* Files were created, written and removed under D after new() and before
\* start(): nothing is in the channel.
C15_Witness ==
  /\ mon = "Constructed"
  /\ paths_to_watch = <<D>>
  /\ nops = 3
  /\ chan = <<>>
  /\ ~gotNone

C19_ModeByType ==
  /\ [][ (mon = "Starting" /\ registered' # registered)
           => LET path == paths_to_watch[startIdx]
              IN  /\ fs[path] \in {"dir", "file"}
                  /\ registered' =
                       Append(registered,
                              [path |-> path,
                               mode |-> IF fs[path] = "dir"
                                        THEN "Recursive"
                                        ELSE "NonRecursive"]) ]_vars
  /\ [][ mon # "Starting" => (registered' = registered \/ registered' = <<>>) ]_vars
  /\ [](mon = "Watching" =>
          /\ Len(probed) = Len(paths_to_watch)
          /\ Len(registered)
               = Cardinality({ i \in 1..Len(probed) : probed[i].found # "missing" })
          /\ \A i \in 1..Len(probed) :
               LET n == Cardinality({ j \in 1..i : probed[j].found # "missing" })
               IN  /\ probed[i].found = "dir"
                        => registered[n] = [path |-> paths_to_watch[i],
                                            mode |-> "Recursive"]
                   /\ probed[i].found = "file"
                        => registered[n] = [path |-> paths_to_watch[i],
                                            mode |-> "NonRecursive"])

\* start() returned Ok for a special path, a directory and a file.
C19_Witness ==
  /\ mon = "Watching"
  /\ paths_to_watch = <<S, D, Da>>
  /\ registered = << [path |-> D, mode |-> "Recursive"],
                     [path |-> Da, mode |-> "NonRecursive"] >>

(***************************************************************************)
(* C20: the FileMonitor can be dropped whatever the callback is doing, and *)
(* a drop made while the callback waits in its send on the full channel    *)
(* leaves batch, channel and sender as they are.  The waiting send goes    *)
(* through exactly when the consumer has made room or dropped its          *)
(* receiver, and it then enqueues the event or fails and is logged.  With  *)
(* a consumer that keeps receiving or drops its receiver, the debounce     *)
(* thread finishes its batch and ends: nothing waits forever.              *)
(***************************************************************************)
C20_TeardownNoDeadlock ==
  /\ [](mon \in {"Constructed", "Watching", "StartFailed"}
          => ENABLED DropMonitor)
  /\ [][ (mon # "Stopped" /\ mon' = "Stopped")
           => UNCHANGED <<batch, chan, txAlive, rxAlive, sentLog, window>> ]_vars
  /\ []((mon = "Stopped" /\ batch # <<>> /\ fs_event(Head(batch)) # <<>>)
          => (ENABLED CallbackStep
                <=> (~rxAlive \/ Len(chan) < ChannelCapacity)))
  /\ [][ (mon = "Stopped" /\ HandlesHead /\ fs_event(Head(batch)) # <<>>)
           => AttemptsOnly(fs_event(Head(batch))[1]) ]_vars
  /\ (mon = "Stopped") ~> (~txAlive /\ batch = <<>>)

\* The FileMonitor was dropped while the callback waits in its send on the
\* full channel.
C20_Witness ==
  /\ mon = "Stopped"
  /\ Suspended
  /\ ~ENABLED CallbackStep
  /\ txAlive

(***************************************************************************)
(* C21, as stated: when the FileMonitor goes out of scope after a          *)
(* successful start(), the pipeline stays as it was in the Watching state: *)
(* the registrations remain, so that later changes under the watched       *)
(* paths are still reported.                                               *)
(***************************************************************************)
C21_AsStated ==
  [][ (mon = "Watching" /\ mon' # "Watching")
        => registered' = registered ]_vars

(***************************************************************************)
(* C22, as stated: after start() has returned an error no path is          *)
(* registered with the backend, and no event is enqueued from then on.     *)
(***************************************************************************)
C22_AsStated ==
  /\ [](mon = "StartFailed" => registered = <<>>)
  /\ [][mon = "StartFailed" => sentLog' = sentLog]_vars

=============================================================================
